---- MODULE Spec2Model ----
(***************************************************************************)
(* Model of the todo-list MCP server (src/main.py): the YAML document at   *)
(* TODO_FILE, the temp-file/rename save sequence of save_todos, the four   *)
(* collection operations and the dispatcher handle_call_tool.              *)
(*                                                                         *)
(* Every system call of an invocation is one step, so that every          *)
(* intermediate state of a save, every failure point and every crash point *)
(* is a reachable state.  Spec serves one invocation at a time (the        *)
(* handler is a coroutine without an await, so the event loop runs it to   *)
(* completion); SpecConc lets two callers of the plain functions (threads  *)
(* or two server processes on the same TODO_FILE) interleave.              *)
(***************************************************************************)
EXTENDS Integers, Sequences, FiniteSets, TLC

\* ------------------------------------------------------------------ bounds
MaxIds == 2
MaxClock == 2
MaxConcCalls == 3

Procs == {"p1", "p2"}
Server == "p1"
Descriptions == {"a", "b"}

\* ------------------------------------------------------- data model
None == 0

ToolNames == {"list_todos", "add_todo", "complete_todo", "delete_todo",
              "get_timestamp", "unknown_tool"}
Mutators == {"add_todo", "complete_todo", "delete_todo"}

NoItem == [id |-> 0, description |-> "", status |-> "", created_at |-> None,
           completed_at |-> None]

\* contents of a file: the items whose text has reached the file and whether
\* the whole stream was emitted
Absent == [kind |-> "absent", items |-> <<>>, full |-> FALSE]
EmptyFile == [kind |-> "yaml", items |-> <<>>, full |-> FALSE]
NoKeyDoc == [kind |-> "nokey", items |-> <<>>, full |-> TRUE]
GarbageDoc == [kind |-> "garbage", items |-> <<>>, full |-> TRUE]
NoFile == Absent

Dump(todos) == [kind |-> "yaml", items |-> todos, full |-> TRUE]

NoOp == [name |-> "", description |-> "", id |-> 0]
NoResp == [name |-> "", id |-> 0, kind |-> "none", err |-> "", text |-> "",
           item |-> NoItem, items |-> <<>>]

\* ------------------------------------------------------------- state
VARIABLES
    doc,        \* contents of TODO_FILE (Absent when there is no file)
    mode,       \* permission bits of TODO_FILE
    tmp,        \* per caller: contents of its temp file (NoFile when none)
    leftover,   \* a temp file of the last finished save is still in the directory
    cleanup_e,  \* the os.unlink(tmp_path) of the last save's except block raised
    pc,         \* per caller: position in its invocation
    op,         \* per caller: the tool and argument being served
    mem,        \* per caller: data["todos"] in memory
    item,       \* per caller: the item the operation will return
    pre,        \* per caller: contents of TODO_FILE when the invocation began
    err,        \* per caller: the step of save_todos that raised
    now,        \* the system clock, in seconds
    nextId,     \* number of uuids generated so far, plus one
    resp,       \* outcome of the invocation that finished last
    deleted,    \* ids for which delete_todo has returned True
    lastAdded,  \* item returned by a successful add_todo that finished just before
                \* the running (or last finished) invocation began
    renamed,    \* the collection given to the save whose os.replace came last
    calls       \* SpecConc only: number of invocations started

vars == <<doc, mode, tmp, leftover, cleanup_e, pc, op, mem, item, pre, err, now, nextId,
          resp, lastAdded, deleted, renamed, calls>>

\* ------------------------------------------------------ pure functions
\* load_todos: what yaml.load and the two early returns make of a document
load_todos(d) ==
    IF d.kind = "absent" THEN [raised |-> FALSE, haskey |-> TRUE, todos |-> <<>>]
    ELSE IF d.kind = "garbage" THEN [raised |-> TRUE, haskey |-> FALSE, todos |-> <<>>]
    ELSE IF d.kind = "nokey" THEN [raised |-> FALSE, haskey |-> FALSE, todos |-> <<>>]
    ELSE [raised |-> FALSE, haskey |-> TRUE, todos |-> d.items]

current_timestamp == now

\* a generator that hands out the previous identifier again
uuid4_Repeat == IF nextId > 1 THEN nextId - 1 ELSE nextId

\* hands out again an identifier that is no longer in the collection
uuid4_Recycle ==
    LET free == {i \in 1..(nextId - 1) : \A k \in DOMAIN doc.items : doc.items[k].id # i}
    IN  IF free # {} THEN CHOOSE i \in free : \A j \in free : i <= j ELSE nextId

\* uuid.uuid4(): an identifier that was never generated before
uuid4 == nextId

new_item(description) ==
    [id |-> uuid4, description |-> description, status |-> "pending",
     created_at |-> current_timestamp, completed_at |-> None]

RECURSIVE FirstMatch(_, _, _)
FirstMatch(todos, id, i) ==
    IF i > Len(todos) THEN 0
    ELSE IF todos[i].id = id THEN i
    ELSE FirstMatch(todos, id, i + 1)

\* marks the item done without a completion time
complete_item_NoTimestamp(it) ==
    [it EXCEPT !.status = "done"]

\* toggles the status instead of setting it
complete_item_Toggle(it) ==
    IF it.status = "done"
      THEN [it EXCEPT !.status = "pending", !.completed_at = None]
      ELSE [it EXCEPT !.status = "done", !.completed_at = current_timestamp]

\* stamps created_at as well as completed_at
complete_item_Restamps(it) ==
    [it EXCEPT !.status = "done", !.completed_at = current_timestamp,
               !.created_at = current_timestamp]

complete_item(it) ==
    [it EXCEPT !.status = "done", !.completed_at = current_timestamp]

\* completes every item of the list
complete_in_All(todos, id) ==
    [i \in DOMAIN todos |-> complete_item(todos[i])]

\* moves the completed item to the end of the list
complete_in_MoveToEnd(todos, id) ==
    LET i == FirstMatch(todos, id, 1)
    IN  Append(SelectSeq(todos, LAMBDA t : t # todos[i]), complete_item(todos[i]))

complete_in(todos, id) ==
    LET i == FirstMatch(todos, id, 1)
    IN  [todos EXCEPT ![i] = complete_item(todos[i])]

\* keeps the matching items instead of the others
RECURSIVE Filter_Inverted(_, _)
Filter_Inverted(todos, id) ==
    IF todos = <<>> THEN <<>>
    ELSE IF Head(todos).id = id
      THEN <<Head(todos)>> \o Filter_Inverted(Tail(todos), id)
    ELSE Filter_Inverted(Tail(todos), id)

RECURSIVE Filter(_, _)
Filter(todos, id) ==
    IF todos = <<>> THEN <<>>
    ELSE IF Head(todos).id # id THEN <<Head(todos)>> \o Filter(Tail(todos), id)
    ELSE Filter(Tail(todos), id)

\* ------------------------------------------------------------- Init
InitDocs == {Absent, EmptyFile, Dump(<<>>), NoKeyDoc, GarbageDoc}

Init ==
    /\ doc \in InitDocs
    /\ mode \in IF doc = Absent THEN {"none"} ELSE {"0600", "0644"}
    /\ tmp = [p \in Procs |-> NoFile]
    /\ leftover = FALSE
    /\ cleanup_e = FALSE
    /\ pc = [p \in Procs |-> "idle"]
    /\ op = [p \in Procs |-> NoOp]
    /\ mem = [p \in Procs |-> <<>>]
    /\ item = [p \in Procs |-> NoItem]
    /\ pre = [p \in Procs |-> Absent]
    /\ err = [p \in Procs |-> ""]
    /\ now = 1
    /\ nextId = 1
    /\ resp = NoResp
    /\ lastAdded = NoItem
    /\ deleted = {}
    /\ renamed = [done |-> FALSE, todos |-> <<>>]
    /\ calls = 0

\* ------------------------------------------------------------ actions
\* the invocation of p ends: its response (or exception) reaches the caller
Finish(p, kind, e, it, its) ==
    /\ resp' = [name |-> op[p].name, id |-> op[p].id, kind |-> kind,
                err |-> e, text |-> "", item |-> it, items |-> its]
    /\ pc' = [pc EXCEPT ![p] = "idle"]
    /\ op' = [op EXCEPT ![p] = NoOp]
    /\ mem' = [mem EXCEPT ![p] = <<>>]
    /\ item' = [item EXCEPT ![p] = NoItem]
    /\ pre' = [pre EXCEPT ![p] = Absent]
    /\ err' = [err EXCEPT ![p] = ""]
    /\ UNCHANGED lastAdded
    /\ deleted' = IF kind = "ok" /\ op[p].name = "delete_todo"
                  THEN deleted \cup {op[p].id} ELSE deleted

Return(p, kind, it, its) == Finish(p, kind, "", it, its)

Raise(p, step) == Finish(p, "raise", step, NoItem, <<>>)

\* a response that handle_call_tool gives without calling an operation
Reply(name, kind, text) ==
    /\ resp' = [NoResp EXCEPT !.name = name, !.kind = kind, !.text = text]
    /\ lastAdded' = NoItem
    /\ UNCHANGED deleted
    /\ UNCHANGED <<pc, op, pre>>

AddsInFlight == Cardinality({q \in Procs : op[q].name = "add_todo" /\ pc[q] = "load"})

\* the calls a client can make: a tool name and the argument the tool reads
\* ("" and 0 stand for a missing or empty argument)
Requests ==
    [name : {"list_todos", "get_timestamp", "unknown_tool"}, description : {""}, id : {0}]
    \cup [name : {"add_todo"}, description : {""} \cup Descriptions, id : {0}]
    \cup [name : {"complete_todo", "delete_todo"}, description : {""}, id : 0..MaxIds]

\* checks only the id argument
MissingArgument_IdOnly(r) ==
    r.name \in {"complete_todo", "delete_todo"} /\ r.id = 0

\* handle_call_tool: "if not description" and "if not todo_id"
MissingArgument(r) ==
    \/ r.name = "add_todo" /\ r.description = ""
    \/ r.name \in {"complete_todo", "delete_todo"} /\ r.id = 0

\* the parameter named in "Error: ... parameter is required"
RequiredParameter(name) == IF name = "add_todo" THEN "description" ELSE "id"

\* handle_call_tool: argument checks, then the collection operation starts
Call(p) ==
    /\ pc[p] = "idle"
    /\ \E r \in Requests :
        /\ r.name = "add_todo" => nextId + AddsInFlight <= MaxIds
        /\ IF r.name = "unknown_tool" THEN Reply(r.name, "error", "Unknown tool")
           ELSE IF r.name = "get_timestamp" THEN Reply(r.name, "ok", "")
           ELSE IF MissingArgument(r)
             THEN Reply(r.name, "error", RequiredParameter(r.name))
           ELSE /\ pc' = [pc EXCEPT ![p] = "load"]
                /\ op' = [op EXCEPT ![p] = r]
                /\ pre' = [pre EXCEPT ![p] = doc]
                /\ resp' = NoResp
                /\ UNCHANGED deleted
                /\ lastAdded' = IF resp.name = "add_todo" /\ resp.kind = "ok"
                                THEN resp.item ELSE NoItem
    /\ UNCHANGED <<doc, mode, tmp, leftover, cleanup_e, renamed, mem, item, err, now, nextId>>

\* the operation goes on to save_todos
StartSave(p, todos, it) ==
    /\ pc' = [pc EXCEPT ![p] = "mkstemp"]
    /\ mem' = [mem EXCEPT ![p] = todos]
    /\ item' = [item EXCEPT ![p] = it]
    /\ UNCHANGED <<op, pre, err, resp, lastAdded, deleted>>

\* writes the loaded collection back before returning it
list_todos_Saves(p, data) ==
    /\ StartSave(p, data.todos, NoItem)
    /\ UNCHANGED nextId

list_todos(p, data) ==
    /\ Return(p, "ok", NoItem, data.todos)
    /\ UNCHANGED nextId

\* inserts the new item at the front of the list
add_todo_Prepend(p, data) ==
    /\ StartSave(p, <<new_item(op[p].description)>> \o data.todos,
                 new_item(op[p].description))
    /\ nextId' = nextId + 1

add_todo(p, data) ==
    /\ StartSave(p, Append(data.todos, new_item(op[p].description)),
                 new_item(op[p].description))
    /\ nextId' = nextId + 1

\* treats an item that is already done as not found
complete_todo_PendingOnly(p, data) ==
    LET i == FirstMatch(data.todos, op[p].id, 1)
    IN  /\ IF i = 0 \/ (i > 0 /\ data.todos[i].status = "done")
             THEN Return(p, "notfound", NoItem, <<>>)
             ELSE StartSave(p, complete_in(data.todos, op[p].id),
                            complete_item(data.todos[i]))
        /\ UNCHANGED nextId

complete_todo(p, data) ==
    LET i == FirstMatch(data.todos, op[p].id, 1)
    IN  /\ IF i = 0
             THEN Return(p, "notfound", NoItem, <<>>)
             ELSE StartSave(p, complete_in(data.todos, op[p].id),
                            complete_item(data.todos[i]))
        /\ UNCHANGED nextId

\* saves the filtered collection whether or not anything was removed
delete_todo_AlwaysSaves(p, data) ==
    /\ StartSave(p, Filter(data.todos, op[p].id), NoItem)
    /\ UNCHANGED nextId

delete_todo(p, data) ==
    LET kept == Filter(data.todos, op[p].id)
    IN  /\ IF Len(kept) < Len(data.todos)
             THEN StartSave(p, kept, NoItem)
             ELSE Return(p, "notfound", NoItem, <<>>)
        /\ UNCHANGED nextId

\* load_todos, then the in-memory part of the operation up to its save or return
Load(p) ==
    /\ pc[p] = "load"
    /\ LET data == load_todos(doc)
       IN  \E ioerror \in BOOLEAN :
             IF ioerror \/ data.raised \/ ~data.haskey
               THEN /\ Raise(p, IF ioerror THEN "load"
                                ELSE IF data.raised THEN "parse" ELSE "keyerror")
                    /\ UNCHANGED nextId
             ELSE IF op[p].name = "list_todos" THEN list_todos(p, data)
             ELSE IF op[p].name = "add_todo" THEN add_todo(p, data)
             ELSE IF op[p].name = "complete_todo" THEN complete_todo(p, data)
             ELSE delete_todo(p, data)
    /\ UNCHANGED <<doc, mode, tmp, leftover, cleanup_e, renamed, now, calls>>

\* ---- save_todos, one system call per step

\* the temporary file gets the usual rw-r--r--
MkstempMode_Umask == "0644"

\* tempfile.mkstemp creates the file readable and writable by the owner only
MkstempMode == "0600"

Fail(p, step) ==
    /\ pc' = [pc EXCEPT ![p] = "except"]
    /\ err' = [err EXCEPT ![p] = step]
    /\ UNCHANGED <<doc, mode, tmp, leftover, cleanup_e, renamed>>

\* TODO_FILE.parent.mkdir and tempfile.mkstemp, both before the try block
Mkstemp(p) ==
    /\ pc[p] = "mkstemp"
    /\ \E ioerror \in BOOLEAN :
         IF ioerror
           THEN /\ Raise(p, "mkstemp")
                /\ UNCHANGED <<tmp, leftover, cleanup_e>>
           ELSE /\ tmp' = [tmp EXCEPT ![p] = EmptyFile]
                /\ leftover' = FALSE
                /\ cleanup_e' = FALSE
                /\ pc' = [pc EXCEPT ![p] = "write"]
                /\ UNCHANGED <<op, mem, item, pre, err, resp, lastAdded, deleted>>
    /\ UNCHANGED <<doc, mode, renamed, now, nextId, calls>>

\* writes the document in place, into TODO_FILE itself
WriteOk_InPlace(p) ==
    /\ IF Len(tmp[p].items) < Len(mem[p])
         THEN /\ tmp' = [tmp EXCEPT ![p].items =
                            Append(@, mem[p][Len(tmp[p].items) + 1])]
              /\ UNCHANGED pc
         ELSE /\ tmp' = [tmp EXCEPT ![p].full = TRUE]
              /\ pc' = [pc EXCEPT ![p] = "fsync"]
    /\ doc' = tmp'[p]
    /\ UNCHANGED <<mode, leftover, cleanup_e, renamed, err>>

\* stops writing after the first chunk and goes on to the rename
WriteOk_Truncated(p) ==
    /\ tmp' = [tmp EXCEPT ![p].items =
                  IF mem[p] = <<>> THEN <<>> ELSE <<mem[p][1]>>]
    /\ pc' = [pc EXCEPT ![p] = "fsync"]
    /\ UNCHANGED <<doc, mode, leftover, cleanup_e, renamed, err>>

\* yaml.dump and flush: the text of one item reaches the temp file per step
WriteOk(p) ==
    /\ IF Len(tmp[p].items) < Len(mem[p])
         THEN /\ tmp' = [tmp EXCEPT ![p].items =
                            Append(@, mem[p][Len(tmp[p].items) + 1])]
              /\ UNCHANGED pc
         ELSE /\ tmp' = [tmp EXCEPT ![p].full = TRUE]
              /\ pc' = [pc EXCEPT ![p] = "fsync"]
    /\ UNCHANGED <<doc, mode, leftover, cleanup_e, renamed, err>>

Write(p) ==
    /\ pc[p] = "write"
    /\ \E ioerror \in BOOLEAN :
         IF ioerror THEN Fail(p, "write") ELSE WriteOk(p)
    /\ UNCHANGED <<op, mem, item, pre, resp, lastAdded, deleted, now, nextId, calls>>

Fsync(p) ==
    /\ pc[p] = "fsync"
    /\ \E ioerror \in BOOLEAN :
         IF ioerror THEN Fail(p, "fsync")
         ELSE /\ pc' = [pc EXCEPT ![p] = "replace"]
              /\ UNCHANGED <<doc, mode, tmp, leftover, cleanup_e, renamed, err>>
    /\ UNCHANGED <<op, mem, item, pre, resp, lastAdded, deleted, now, nextId, calls>>

\* os.replace(tmp_path, TODO_FILE)
ReplaceOk(p) ==
    /\ doc' = tmp[p]
    /\ mode' = MkstempMode
    /\ tmp' = [tmp EXCEPT ![p] = NoFile]
    /\ renamed' = [done |-> TRUE, todos |-> mem[p]]
    /\ pc' = [pc EXCEPT ![p] = "chmod"]
    /\ UNCHANGED <<leftover, cleanup_e, err>>

Replace(p) ==
    /\ pc[p] = "replace"
    /\ \E ioerror \in BOOLEAN :
         IF ioerror THEN Fail(p, "replace") ELSE ReplaceOk(p)
    /\ UNCHANGED <<op, mem, item, pre, resp, lastAdded, deleted, now, nextId, calls>>

\* sets the usual rw-r--r-- instead of rw-------
Chmod_WorldReadable(p) ==
    /\ pc[p] = "chmod"
    /\ \E ioerror \in BOOLEAN :
         IF ioerror THEN Fail(p, "chmod")
         ELSE /\ mode' = "0644"
              /\ pc' = [pc EXCEPT ![p] = "saved"]
              /\ UNCHANGED <<doc, tmp, leftover, cleanup_e, renamed, err>>
    /\ UNCHANGED <<op, mem, item, pre, resp, lastAdded, deleted, now, nextId, calls>>

\* os.chmod(TODO_FILE, 0o600) and os.path.getsize(TODO_FILE)
Chmod(p) ==
    /\ pc[p] = "chmod"
    /\ \E ioerror \in BOOLEAN :
         IF ioerror THEN Fail(p, "chmod")
         ELSE /\ mode' = "0600"
              /\ pc' = [pc EXCEPT ![p] = "saved"]
              /\ UNCHANGED <<doc, tmp, leftover, cleanup_e, renamed, err>>
    /\ UNCHANGED <<op, mem, item, pre, resp, lastAdded, deleted, now, nextId, calls>>

\* raises again without removing the temporary file
Except_NoUnlink(p) ==
    /\ pc[p] = "except"
    /\ leftover' = (tmp[p] # NoFile)
    /\ cleanup_e' = FALSE
    /\ tmp' = [tmp EXCEPT ![p] = NoFile]
    /\ Raise(p, err[p])
    /\ UNCHANGED <<doc, mode, renamed, now, nextId, calls>>

\* cleans up but swallows the exception: save_todos returns normally
Except_Swallow(p) ==
    /\ pc[p] = "except"
    /\ \E unlinked \in {u \in BOOLEAN : u => tmp[p] # NoFile} :
         /\ leftover' = (tmp[p] # NoFile /\ ~unlinked)
         /\ cleanup_e' = ~unlinked
    /\ tmp' = [tmp EXCEPT ![p] = NoFile]
    /\ pc' = [pc EXCEPT ![p] = "saved"]
    /\ UNCHANGED <<op, mem, item, pre, err, resp, lastAdded, deleted>>
    /\ UNCHANGED <<doc, mode, renamed, now, nextId, calls>>

\* the except block: best-effort os.unlink(tmp_path), then raise
Except(p) ==
    /\ pc[p] = "except"
    /\ \E unlinked \in {u \in BOOLEAN : u => tmp[p] # NoFile} :
         /\ leftover' = (tmp[p] # NoFile /\ ~unlinked)
         /\ cleanup_e' = ~unlinked
    /\ tmp' = [tmp EXCEPT ![p] = NoFile]
    /\ Raise(p, err[p])
    /\ UNCHANGED <<doc, mode, renamed, now, nextId, calls>>

\* after save_todos returned: the rest of the operation
Saved(p) ==
    /\ pc[p] = "saved"
    /\ IF op[p].name = "add_todo"
         THEN \E ioerror \in BOOLEAN :
                LET verification_data == load_todos(doc)
                IN  IF ioerror \/ verification_data.raised \/ ~verification_data.haskey
                      THEN Raise(p, "verify")
                      ELSE Return(p, "ok", item[p], <<>>)
         ELSE Return(p, "ok", item[p], <<>>)
    /\ UNCHANGED <<doc, mode, tmp, leftover, cleanup_e, renamed, now, nextId, calls>>

\* the server process is killed in the middle of an invocation
Crash(p) ==
    /\ pc[p] # "idle"
    /\ leftover' = IF tmp[p] # NoFile THEN TRUE ELSE leftover
    /\ UNCHANGED cleanup_e
    /\ tmp' = [tmp EXCEPT ![p] = NoFile]
    /\ resp' = [NoResp EXCEPT !.name = op[p].name, !.kind = "crash"]
    /\ lastAdded' = NoItem
    /\ UNCHANGED deleted
    /\ pc' = [pc EXCEPT ![p] = "idle"]
    /\ op' = [op EXCEPT ![p] = NoOp]
    /\ mem' = [mem EXCEPT ![p] = <<>>]
    /\ item' = [item EXCEPT ![p] = NoItem]
    /\ pre' = [pre EXCEPT ![p] = Absent]
    /\ err' = [err EXCEPT ![p] = ""]
    /\ UNCHANGED <<doc, mode, renamed, now, nextId, calls>>

\* a second of wall-clock time passes.  The clock is read only when an
\* invocation starts and in its load step, so a tick during a save is the same
\* as a tick right after it.
Tick ==
    /\ now < MaxClock
    /\ \A p \in Procs : pc[p] \in {"idle", "load"}
    /\ now' = now + 1
    /\ UNCHANGED <<doc, mode, tmp, leftover, cleanup_e, pc, op, mem, item, pre, err, nextId,
                   resp, lastAdded, deleted, renamed, calls>>

Step(p) ==
    \/ Load(p)
    \/ Mkstemp(p)
    \/ Write(p)
    \/ Fsync(p)
    \/ Replace(p)
    \/ Chmod(p)
    \/ Except(p)
    \/ Saved(p)
    \/ Crash(p)

\* one server process: the event loop runs each handler to completion
Next ==
    \/ Call(Server) /\ UNCHANGED calls
    \/ Step(Server)
    \/ Tick

\* two callers on the same TODO_FILE, MaxConcCalls invocations in all
NextConc ==
    \/ \E p \in Procs : Call(p) /\ calls < MaxConcCalls /\ calls' = calls + 1
    \/ \E p \in Procs : Step(p)
    \/ Tick

Spec == Init /\ [][Next]_vars

SpecConc == Init /\ [][NextConc]_vars

\* ------------------------------------------------------------- claims
IdsOf(todos) == {todos[i].id : i \in DOMAIN todos}

ItemsOf(todos) == {todos[i] : i \in DOMAIN todos}

\* the invocation of p ends in this step with a response or an exception
Ends(p) == pc[p] # "idle" /\ pc'[p] = "idle" /\ resp'.kind # "crash"

\* C1: when save_todos fails before the rename (mkstemp, write/flush or fsync),
\* the caller gets an exception and TODO_FILE holds what it held before.
C1_FailedSaveKeepsDocument ==
    [][\A p \in Procs :
         (/\ Ends(p)
          /\ \/ pc[p] = "mkstemp"
             \/ pc[p] = "except" /\ err[p] \in {"write", "fsync"})
         => (resp'.kind = "raise" /\ doc' = pre[p])]_vars

C1_Witness ==
    /\ resp.kind = "raise"
    /\ resp.err \in {"write", "fsync"}
    /\ resp.name \in Mutators
    /\ doc.items # <<>>

\* C2: in every state TODO_FILE is absent, or still the document the store
\* started with (no rename yet), or the complete dump of the collection given to
\* the save whose rename came last; a partly written document is never there.
C2_NoPartialDocument ==
    IF renamed.done THEN doc = Dump(renamed.todos) ELSE doc \in InitDocs

C2_Witness ==
    /\ renamed.done
    /\ doc.items # <<>>
    /\ pc[Server] = "write"
    /\ tmp[Server].items # <<>>
    /\ tmp[Server].items # mem[Server]

\* C3: no mutation is partial: an add_todo, complete_todo or delete_todo that
\* raises leaves TODO_FILE as it was before the operation, and one that returns a
\* result leaves the mutated collection in TODO_FILE.
C3_NoPartialMutation ==
    [][\A p \in Procs :
         (Ends(p) /\ op[p].name \in Mutators)
         => /\ resp'.kind = "raise" => doc' = pre[p]
            /\ resp'.kind = "ok" => doc' = Dump(mem[p])]_vars

\* C4: two add_todo invocations in flight at the same time do not lose an update:
\* when the second one returns its item right after the first returned its own,
\* TODO_FILE contains both items.
C4_NoLostUpdate ==
    [][\A p \in Procs :
         (/\ Ends(p)
          /\ op[p].name = "add_todo"
          /\ resp'.kind = "ok"
          /\ resp.name = "add_todo"
          /\ resp.kind = "ok")
         => {resp.item.id, resp'.item.id} \subseteq IdsOf(doc'.items)]_vars

\* C5: every item of the persisted collection has completed_at set if and only
\* if its status is done.
C5_CompletedAtIffDone ==
    \A it \in ItemsOf(doc.items) : (it.completed_at # None) <=> (it.status = "done")

C5_Witness ==
    /\ \E it \in ItemsOf(doc.items) : it.status = "done"
    /\ \E it \in ItemsOf(doc.items) : it.status = "pending"

\* C6: a persisted item's status is pending or done, a new item starts pending,
\* and an item that is done stays done for as long as it is in the collection:
\* so it is after every step that changes TODO_FILE (which starts without items).
C6_StatusPendingToDone ==
    [][doc' # doc =>
         /\ \A it \in ItemsOf(doc'.items) :
              /\ it.status \in {"pending", "done"}
              /\ it.id \notin IdsOf(doc.items) => it.status = "pending"
         /\ \A old \in ItemsOf(doc.items), new \in ItemsOf(doc'.items) :
              (old.id = new.id /\ old.status = "done") => new.status = "done"]_vars

C6_Witness ==
    /\ resp.name = "add_todo"
    /\ resp.kind = "ok"
    /\ \E it \in ItemsOf(doc.items) : it.status = "done"

\* C7: completed_at is set once and never reset: any step that keeps an item
\* whose completed_at is set keeps that value.
C7_CompletedAtSetOnce ==
    [][\A old \in ItemsOf(doc.items), new \in ItemsOf(doc'.items) :
         (old.id = new.id /\ old.completed_at # None)
         => new.completed_at = old.completed_at]_vars

\* C8: complete_todo on an id that is in the collection, pending or already
\* done, never answers Not-Found, and when it returns, the returned item is done
\* with completed_at set and is the item of that id in TODO_FILE.
C8_CompleteTwiceSucceeds ==
    [][\A p \in Procs :
         (Ends(p) /\ op[p].name = "complete_todo")
         => /\ op[p].id \in IdsOf(pre[p].items) => resp'.kind # "notfound"
            /\ resp'.kind = "ok" =>
                 /\ resp'.item.id = op[p].id
                 /\ resp'.item.status = "done"
                 /\ resp'.item.completed_at # None
                 /\ resp'.item \in ItemsOf(doc'.items)]_vars

C8_Witness ==
    /\ pc[Server] = "saved"
    /\ op[Server].name = "complete_todo"
    /\ \E it \in ItemsOf(pre[Server].items) :
         it.id = op[Server].id /\ it.status = "done"

\* C9: the ids of the persisted collection are pairwise distinct.
C9_UniqueIds ==
    \A i, j \in DOMAIN doc.items : doc.items[i].id = doc.items[j].id => i = j

C9_Witness ==
    /\ Len(doc.items) = MaxIds
    /\ resp.name = "add_todo"
    /\ resp.kind = "ok"

\* C10: a successful add_todo(x) returns a pending item with description x, no
\* completed_at and an id that was not in the collection, and a list_todos that
\* follows it returns a collection whose last element is that item.
C10_AddThenList ==
    [][\A p \in Procs :
         /\ (Ends(p) /\ op[p].name = "add_todo" /\ resp'.kind = "ok")
            => /\ resp'.item.description = op[p].description
               /\ resp'.item.status = "pending"
               /\ resp'.item.completed_at = None
               /\ resp'.item.id \notin IdsOf(pre[p].items)
         /\ (/\ Ends(p)
             /\ op[p].name = "list_todos"
             /\ resp'.kind = "ok"
             /\ lastAdded # NoItem)
            => /\ resp'.items # <<>>
               /\ resp'.items[Len(resp'.items)] = lastAdded]_vars

C10_Witness ==
    /\ resp.name = "list_todos"
    /\ resp.kind = "ok"
    /\ lastAdded # NoItem
    /\ Len(resp.items) = 2
    /\ lastAdded.description = "b"

\* the collection without the items of the given id, others in their order
Without(todos, id) == SelectSeq(todos, LAMBDA t : t.id # id)

C12_NotFoundChangesNothing ==
    [][\A p \in Procs :
         (/\ Ends(p)
          /\ op[p].name \in {"complete_todo", "delete_todo"}
          /\ pre[p].kind \in {"absent", "yaml"}
          /\ op[p].id \notin IdsOf(pre[p].items))
         => /\ pc[p] = "load"
            /\ resp'.kind = "notfound" \/ resp'.err = "load"
            /\ doc' = pre[p]
            /\ UNCHANGED <<doc, mode, tmp, leftover, cleanup_e, renamed>>]_vars

C12_Witness ==
    /\ resp.name = "delete_todo"
    /\ resp.kind = "notfound"
    /\ doc = Absent

\* C13: list_todos is read-only: it ends in its load step, starts no save and
\* leaves TODO_FILE, its mode and the directory as they were; on a store without
\* a document it returns the empty collection and the document is still absent.
C13_ListIsReadOnly ==
    [][\A p \in Procs :
         (Ends(p) /\ op[p].name = "list_todos")
         => /\ pc[p] = "load"
            /\ doc' = pre[p]
            /\ UNCHANGED <<doc, mode, tmp, leftover, cleanup_e, renamed>>
            /\ (pre[p] = Absent /\ resp'.kind # "raise")
               => (resp'.kind = "ok" /\ resp'.items = <<>> /\ doc' = Absent)]_vars

C13_Witness ==
    /\ resp.name = "list_todos"
    /\ resp.kind = "ok"
    /\ resp.items = <<>>
    /\ doc = Absent

C15_ModeOwnerOnlyAfterSave ==
    (\/ \E p \in Procs : pc[p] = "saved"
     \/ resp.kind = "ok" /\ resp.name \in Mutators /\ \A p \in Procs : pc[p] = "idle")
    => mode = "0600"

C15_Witness ==
    /\ pc[Server] = "saved"
    /\ pre[Server] = EmptyFile
    /\ mode = "0600"

\* C16: a call of add_todo, complete_todo or delete_todo without its required
\* argument never starts the operation, and the error reply it gets names the
\* required parameter and comes without any access to TODO_FILE or its directory.
C16_MissingArgumentRejected ==
    [][\A p \in Procs :
         pc[p] = "idle"
         => /\ pc'[p] = "load"
               => /\ op'[p].name = "add_todo" => op'[p].description # ""
                  /\ op'[p].name \in {"complete_todo", "delete_todo"} => op'[p].id # None
            /\ (pc'[p] = "idle" /\ resp'.kind = "error" /\ resp'.name \in Mutators)
               => /\ resp'.text = (IF resp'.name = "add_todo" THEN "description" ELSE "id")
                  /\ UNCHANGED <<doc, mode, tmp, leftover, cleanup_e, renamed, pc, op, mem>>]_vars

C16_Witness ==
    /\ resp.kind = "error"
    /\ resp.name = "add_todo"
    /\ resp.text = "description"
    /\ doc.items # <<>>

\* C17: a call that loads a document that exists but is empty or unparseable
\* does not end in an error raised by the load: list_todos returns the empty
\* collection, complete_todo and delete_todo report "not found", add_todo goes
\* on to save (failures to open or read TODO_FILE aside).
C17_EmptyOrUnparseableLoadsEmpty ==
    [][\A p \in Procs :
         (/\ pc[p] = "load" /\ pc'[p] # "load"
          /\ doc \in {EmptyFile, GarbageDoc}
          /\ resp'.kind # "crash" /\ resp'.err # "load")
         => /\ resp'.kind # "raise"
            /\ op[p].name = "list_todos" => (resp'.kind = "ok" /\ resp'.items = <<>>)
            /\ op[p].name \in {"complete_todo", "delete_todo"} => resp'.kind = "notfound"
            /\ op[p].name = "add_todo" => (pc'[p] = "mkstemp" /\ Len(mem'[p]) = 1)]_vars

\* C18: a call that loads a document that parses but has no top-level "todos"
\* key does not fail: list_todos returns the empty collection, complete_todo
\* and delete_todo report "not found", add_todo goes on to save one item
\* (failures to open or read TODO_FILE aside).
C18_MissingKeyLoadsEmpty ==
    [][\A p \in Procs :
         (/\ pc[p] = "load" /\ pc'[p] # "load"
          /\ doc = NoKeyDoc
          /\ resp'.kind # "crash" /\ resp'.err # "load")
         => /\ resp'.kind # "raise"
            /\ op[p].name = "list_todos" => (resp'.kind = "ok" /\ resp'.items = <<>>)
            /\ op[p].name \in {"complete_todo", "delete_todo"} => resp'.kind = "notfound"
            /\ op[p].name = "add_todo" => (pc'[p] = "mkstemp" /\ Len(mem'[p]) = 1)]_vars

SaveSteps == {"mkstemp", "write", "fsync", "replace", "chmod", "except"}

\* C19: a dispatched add_todo, complete_todo or delete_todo whose save failed
\* ends with the failure raised to the caller: from the except block the call
\* can only end in a raise, a call that ends while saving ends in a raise, and
\* a success response is only given after save_todos has returned.
C19_SaveFailurePropagates ==
    [][\A p \in Procs :
         /\ (pc[p] = "except" /\ pc'[p] # "except")
            => (pc'[p] = "idle" /\ resp'.kind \in {"raise", "crash"})
         /\ (pc[p] \in SaveSteps /\ pc'[p] = "idle")
            => (resp'.kind \in {"raise", "crash"} /\ resp'.text = "")
         /\ (Ends(p) /\ op[p].name \in Mutators /\ resp'.kind = "ok")
            => pc[p] = "saved"]_vars

C19_Witness ==
    /\ resp.kind = "raise"
    /\ resp.err = "replace"
    /\ resp.name = "delete_todo"
    /\ doc.items # <<>>

\* C20: the items of the persisted collection are in creation order: an item
\* created earlier (smaller generated id) precedes every item created later.
C20_InsertionOrderPreserved ==
    \A i, j \in DOMAIN doc.items :
        i < j => doc.items[i].id < doc.items[j].id

C20_Witness ==
    /\ Len(doc.items) = 2
    /\ resp.name = "complete_todo"
    /\ resp.kind = "ok"
    /\ resp.id = doc.items[1].id
    /\ doc.items[1].status = "done"

\* C21: id, description and created_at of a persisted item never change: in
\* every step that changes TODO_FILE, an item that is in the persisted
\* collection before and after the step has the same description and
\* created_at under the same id.
C21_CreationFieldsImmutable ==
    [][doc' # doc =>
         \A a \in ItemsOf(doc.items) : \A b \in ItemsOf(doc'.items) :
           a.id = b.id => (a.description = b.description /\ a.created_at = b.created_at)]_vars

C21_Witness ==
    /\ resp.name = "complete_todo"
    /\ resp.kind = "ok"
    /\ Len(doc.items) = 2
    /\ \E it \in ItemsOf(doc.items) :
         /\ it.id = resp.id
         /\ it.description = "b"
         /\ it.created_at < it.completed_at

\* C22: when save_todos finishes, by returning or by raising, and the
\* os.unlink of its except block did not itself fail, no temporary file of that
\* save is left in the directory of TODO_FILE.
C22_NoTemporaryFileLeft ==
    [][\A p \in Procs :
         (/\ pc[p] \in SaveSteps \ {"mkstemp"}
          /\ pc'[p] \in {"saved", "idle"}
          /\ resp'.kind # "crash")
         => /\ tmp'[p] = NoFile
            /\ ~cleanup_e' => ~leftover']_vars

C22_Witness ==
    /\ resp.kind = "raise"
    /\ resp.err = "fsync"
    /\ resp.name = "add_todo"
    /\ ~cleanup_e
    /\ ~leftover
    /\ tmp[Server] = NoFile

\* C23: in every state after a save's rename, TODO_FILE has mode 0600: right
\* after the rename and before the chmod, after a failed chmod, and ever after.
C23_NeverReadableByOthers ==
    renamed.done => mode = "0600"

C23_Witness ==
    /\ pc[Server] = "except"
    /\ err[Server] = "chmod"
    /\ renamed.done
    /\ mode = "0600"
    /\ doc.items # <<>>

\* C24: a complete_todo(id) that returned its item leaves the persisted
\* collection as long as before, every item but the first with that id the
\* same in the same position, and that one changed in status and completed_at
\* only.
C24_CompleteChangesOneItem ==
    [][\A p \in Procs :
         (Ends(p) /\ op[p].name = "complete_todo" /\ resp'.kind = "ok")
         => /\ doc'.kind = "yaml"
            /\ Len(doc'.items) = Len(pre[p].items)
            /\ \E k \in DOMAIN pre[p].items :
                 /\ pre[p].items[k].id = op[p].id
                 /\ \A i \in 1..(k - 1) : pre[p].items[i].id # op[p].id
                 /\ \A i \in DOMAIN pre[p].items \ {k} : doc'.items[i] = pre[p].items[i]
                 /\ doc'.items[k] = [pre[p].items[k] EXCEPT
                                       !.status = doc'.items[k].status,
                                       !.completed_at = doc'.items[k].completed_at]]_vars

C24_Witness ==
    /\ resp.name = "complete_todo"
    /\ resp.kind = "ok"
    /\ Len(doc.items) = 2
    /\ doc.items[1].status = "pending"
    /\ doc.items[2].status = "done"
    /\ doc.items[2].id = resp.id

\* id is not persisted, no complete_todo(id) or delete_todo(id) finds it (none
\* gets past its load to a save, none returns an item), and it is not the id
\* of a new item
Gone(id) ==
    /\ id \notin IdsOf(doc.items)
    /\ \A p \in Procs :
         (op[p].name \in {"complete_todo", "delete_todo"} /\ op[p].id = id)
         => pc[p] = "load"
    /\ ~(resp.name = "complete_todo" /\ resp.kind = "ok" /\ resp.id = id)
    /\ ~(resp.name = "add_todo" /\ resp.kind = "ok" /\ resp.item.id = id)
    /\ \A p \in Procs : op[p].name = "add_todo" => item[p].id # id
    /\ nextId > id

\* C25: once delete_todo(id) has returned True, id is never in the persisted
\* collection again: from then on no complete_todo(id) returns an item, no
\* delete_todo(id) gets to remove anything, and no add_todo creates an item
\* with that id.
C25_DeletedIdNeverReturns ==
    \A id \in deleted : Gone(id)

C25_Witness ==
    /\ deleted = {1}
    /\ resp.name = "complete_todo"
    /\ resp.kind = "notfound"
    /\ resp.id = 1
    /\ IdsOf(doc.items) = {MaxIds}
====
